---------------------------- MODULE Spec2Model ----------------------------
(***************************************************************************)
(* A model of the three kernels of the repository:                         *)
(*   - Project 0/tictactoe/tictactoe.py : board transitions and minimax    *)
(*   - Project 2/heredity/heredity.py   : pedigree loading and the joint   *)
(*                                        probability enumeration          *)
(*   - Project 2/pagerank/pagerank.py   : sampling and iterative PageRank  *)
(* The kernels share no state; each has its own variables, its own Init    *)
(* and Next, and its own specification.  The variables of the kernels a    *)
(* specification does not run keep their idle values.                      *)
(***************************************************************************)
EXTENDS Integers, Sequences, FiniteSets, TLC

VARIABLES
    \* ---- tictactoe ----
    board,          \* the board the caller holds (the last board returned by result)
    input,          \* contents, after the call, of the board object handed to the last result() call
    action,         \* the action of the last result() call, or NoAction
    raised,         \* TRUE iff the last result() call raised Exception("Illegal aciton")
    order,          \* the order in which the last minimax() call enumerated actions(board)
    values,         \* the value that call's loop obtained for each action (max_v / min_v)
    optimal_move,   \* what the last minimax() call returned, or NoAction
    \* ---- heredity ----
    csv_rows,       \* the rows of the CSV file handed to load_data
    people,         \* main's people: what load_data returned
    h_pc,           \* where main is: "load", "enumerate" or "done"
    position,       \* how many iterations of main's innermost loop body have run, plus one
    probabilities,  \* main's probabilities, before normalize
    joint_sum,      \* history: the sum of the values joint_probability has returned
    \* ---- pagerank ----
    corpus,         \* the corpus: page |-> the set of pages it links to
    damping_factor, \* the damping factor handed to the estimator
    sample_n,       \* the sample count n handed to sample_pagerank
    call,           \* the estimator that is running: "sample" or "iterate"
    r_pc,           \* where it is: "start", "loop", "returned" or the error it ended in
    cur_page,       \* sample_pagerank's cur_page
    sample_i,       \* sample_pagerank's loop variable i: loop bodies run so far
    result_dict,    \* sample_pagerank's result_dict
    visits,         \* history: how many times each page has been drawn
    pre_result_dict,\* iterate_pagerank's pre_result_dict
    cur_result_dict,\* iterate_pagerank's cur_result_dict
    iterations,     \* passes of iterate_pagerank's while loop so far
    ranks           \* the mapping the estimator returned

gameVars == <<board, input, action, raised, order, values, optimal_move>>
heredityVars == <<csv_rows, people, h_pc, position, probabilities, joint_sum>>
rankVars == <<corpus, damping_factor, sample_n, call, r_pc, cur_page, sample_i, result_dict, visits,
              pre_result_dict, cur_result_dict, iterations, ranks>>
vars == <<gameVars, heredityVars, rankVars>>

(***************************************************************************)
(*                              TIC TAC TOE                                *)
(***************************************************************************)
X == "X"
O == "O"
EMPTY == "None"
\* Python's None where it is a return value (winner, minimax) or an idle field.
None == "None"
NoAction == <<>>

Idx == 0..2
Cells == Idx \X Idx

initial_state == [r \in Idx |-> [c \in Idx |-> EMPTY]]

CountMark(b, mark) == Cardinality({rc \in Cells : b[rc[1]][rc[2]] = mark})

player_swapped(b) ==
    IF CountMark(b, X) = CountMark(b, O) THEN O ELSE X

player(b) ==
    IF CountMark(b, X) = CountMark(b, O) THEN X ELSE O

actions(b) == {rc \in Cells : b[rc[1]][rc[2]] = EMPTY}

\* copy.deepcopy on a heap of board objects: a fresh object with equal contents.
alias(heap, ref) == [heap |-> heap, ref |-> ref]

deepcopy(heap, ref) == [heap |-> Append(heap, heap[ref]), ref |-> Len(heap) + 1]

\* One call of result() on an empty cell.  Object 1 of the heap is the board
\* the caller passed; the record holds the contents of that object after the
\* call (arg) and the contents of the returned object (ret).
result_call(b, a) ==
    LET heap0  == <<b>>
        copied == deepcopy(heap0, 1)
        heap1  == [copied.heap EXCEPT ![copied.ref][a[1]][a[2]] = player(heap0[1])]
    IN  [arg |-> heap1[1], ret |-> heap1[copied.ref]]

result(b, a) == result_call(b, a).ret

\* The three checks of winner()'s loop body for one mark.
OwnsLine(b, cur_player) ==
    \/ \E i \in Idx : b[i][0] = cur_player /\ b[i][1] = cur_player /\ b[i][2] = cur_player
    \/ \E i \in Idx : b[0][i] = cur_player /\ b[1][i] = cur_player /\ b[2][i] = cur_player
    \/ b[0][0] = cur_player /\ b[1][1] = cur_player /\ b[2][2] = cur_player
    \/ b[0][2] = cur_player /\ b[1][1] = cur_player /\ b[2][0] = cur_player

\* winner()'s loop over the marks in the order `marks`.
RECURSIVE winner_in_order(_, _)
winner_in_order(b, marks) ==
    IF marks = <<>> THEN None
    ELSE IF OwnsLine(b, Head(marks)) THEN Head(marks)
    ELSE winner_in_order(b, Tail(marks))

winner(b) == winner_in_order(b, <<O, X>>)

terminal_full_only(b) == actions(b) = {}

terminal(b) ==
    IF winner(b) # None THEN TRUE ELSE actions(b) = {}

utility(b) ==
    IF winner(b) = X THEN 1
    ELSE IF winner(b) = O THEN -1
    ELSE 0

\* math.inf; every utility lies strictly between -Inf and Inf.
Inf == 2

SetMax(S) == CHOOSE x \in S : \A y \in S : y <= x
SetMin(S) == CHOOSE x \in S : \A y \in S : x <= y

RECURSIVE max_value(_), min_value(_)
max_value(b) ==
    IF terminal(b) THEN utility(b)
    ELSE SetMax({-Inf} \cup {min_value(result(b, a)) : a \in actions(b)})

min_value(b) ==
    IF terminal(b) THEN utility(b)
    ELSE SetMin({Inf} \cup {max_value(result(b, a)) : a \in actions(b)})

\* The values minimax()'s loop obtains for the actions of a board: max_v =
\* min_value(result(board, action)) when X is to move, min_v =
\* max_value(result(board, action)) when O is.
successor_values(b) ==
    IF player(b) = X
    THEN {<<a, min_value(result(b, a))>> : a \in actions(b)}
    ELSE {<<a, max_value(result(b, a))>> : a \in actions(b)}

ValueIn(vals, a) == (CHOOSE p \in vals : p[1] = a)[2]

\* The loop of minimax() for X over the remaining actions `seq`, with the
\* loop's variables v and optimal_move; vals holds max_v for each action.
RECURSIVE minimax_loop_X(_, _, _, _)
minimax_loop_X(seq, vals, v, best) ==
    IF seq = <<>> THEN best
    ELSE LET max_v == ValueIn(vals, Head(seq))
         IN  IF max_v > v
             THEN minimax_loop_X(Tail(seq), vals, max_v, Head(seq))
             ELSE minimax_loop_X(Tail(seq), vals, v, best)

RECURSIVE minimax_loop_O_flipped(_, _, _, _)
minimax_loop_O_flipped(seq, vals, v, best) ==
    IF seq = <<>> THEN best
    ELSE LET min_v == ValueIn(vals, Head(seq))
         IN  IF min_v > -v
             THEN minimax_loop_O_flipped(Tail(seq), vals, -min_v, Head(seq))
             ELSE minimax_loop_O_flipped(Tail(seq), vals, v, best)

RECURSIVE minimax_loop_O_last(_, _, _, _)
minimax_loop_O_last(seq, vals, v, best) ==
    IF seq = <<>> THEN best
    ELSE LET min_v == ValueIn(vals, Head(seq))
         IN  IF min_v <= v
             THEN minimax_loop_O_last(Tail(seq), vals, min_v, Head(seq))
             ELSE minimax_loop_O_last(Tail(seq), vals, v, best)

\* The same loop for O.
RECURSIVE minimax_loop_O(_, _, _, _)
minimax_loop_O(seq, vals, v, best) ==
    IF seq = <<>> THEN best
    ELSE LET min_v == ValueIn(vals, Head(seq))
         IN  IF min_v < v
             THEN minimax_loop_O(Tail(seq), vals, min_v, Head(seq))
             ELSE minimax_loop_O(Tail(seq), vals, v, best)

\* minimax(board) once the loop's values are known, with `seq` the order in
\* which the for loop enumerates the set actions(board).
minimax_select(b, seq, vals) ==
    IF terminal(b) THEN None
    ELSE IF player(b) = X THEN minimax_loop_X(seq, vals, -Inf, NoAction)
    ELSE minimax_loop_O(seq, vals, Inf, NoAction)

minimax(b, seq) == minimax_select(b, seq, successor_values(b))

\* Enumeration orders of a Python set of cells: the row-major sequence of the
\* nine cells rotated by k, restricted to the members of the set.
RowMajor == <<<<0, 0>>, <<0, 1>>, <<0, 2>>,
              <<1, 0>>, <<1, 1>>, <<1, 2>>,
              <<2, 0>>, <<2, 1>>, <<2, 2>>>>

Rotated(k) == [i \in 1..9 |-> RowMajor[((i - 1 + k) % 9) + 1]]

Enumerate(S, k) ==
    LET InS(rc) == rc \in S
    IN  SelectSeq(Rotated(k), InS)

\* The rotations the specifications draw from: with all nine, every action
\* attaining the extremal value is the first one in some order.
NumRotations == 9

(***************************************************************************)
(*                           EXACT ARITHMETIC                              *)
(* The programs compute with Python floats.  The model computes the same   *)
(* expressions exactly: a number is +/- mag / Unit^exp, with mag a natural *)
(* number of any size.  Every divisor the modelled runs meet (100 for the  *)
(* decimal literals, page counts, out-degrees, sample counts) divides      *)
(* Unit, so no operation rounds.                                           *)
(***************************************************************************)
\* Largest number of pages of a corpus.
MaxPages == 3

\* Largest sample count n handed to sample_pagerank.
MaxSamples == 3

\* Most iterations of iterate_pagerank's while loop that are followed.
MaxIterations == 10

RECURSIVE Gcd(_, _)
Gcd(a, b) == IF b = 0 THEN a ELSE Gcd(b, a % b)

RECURSIVE LcmUpTo(_)
LcmUpTo(n) ==
    IF n <= 1 THEN 1
    ELSE LET l == LcmUpTo(n - 1) IN (l * n) \div Gcd(l, n)

Unit == 100 * LcmUpTo(IF MaxPages > MaxSamples THEN MaxPages ELSE MaxSamples)

\* Natural numbers of any size: little-endian sequences of limbs below
\* LimbBase, without leading zero limbs; <<>> is zero.
LimbBase == 10 ^ 4

RECURSIVE NatOf(_)
NatOf(n) == IF n = 0 THEN <<>> ELSE <<n % LimbBase>> \o NatOf(n \div LimbBase)

RECURSIVE NatAddC(_, _, _)
NatAddC(a, b, carry) ==
    IF a = <<>> /\ b = <<>> THEN NatOf(carry)
    ELSE LET x == IF a = <<>> THEN 0 ELSE Head(a)
             y == IF b = <<>> THEN 0 ELSE Head(b)
             t == x + y + carry
         IN  <<t % LimbBase>> \o NatAddC(IF a = <<>> THEN a ELSE Tail(a),
                                         IF b = <<>> THEN b ELSE Tail(b),
                                         t \div LimbBase)

NatAdd(a, b) == NatAddC(a, b, 0)

RECURSIVE NatTrim(_)
NatTrim(a) ==
    IF a = <<>> THEN a
    ELSE IF a[Len(a)] = 0 THEN NatTrim(SubSeq(a, 1, Len(a) - 1))
    ELSE a

RECURSIVE NatSubB(_, _, _)
NatSubB(a, b, borrow) ==
    IF a = <<>> THEN <<>>
    ELSE LET y == IF b = <<>> THEN 0 ELSE Head(b)
             d == Head(a) - y - borrow
         IN  <<IF d < 0 THEN d + LimbBase ELSE d>>
               \o NatSubB(Tail(a), IF b = <<>> THEN b ELSE Tail(b), IF d < 0 THEN 1 ELSE 0)

\* a - b, for a >= b.
NatSub(a, b) == NatTrim(NatSubB(a, b, 0))

RECURSIVE NatLessFrom(_, _, _)
NatLessFrom(a, b, i) ==
    IF i = 0 THEN FALSE
    ELSE IF a[i] # b[i] THEN a[i] < b[i]
    ELSE NatLessFrom(a, b, i - 1)

NatLess(a, b) ==
    IF Len(a) # Len(b) THEN Len(a) < Len(b) ELSE NatLessFrom(a, b, Len(a))

RECURSIVE NatMulSmallC(_, _, _)
NatMulSmallC(a, m, carry) ==
    IF a = <<>> THEN NatOf(carry)
    ELSE LET t == Head(a) * m + carry
         IN  <<t % LimbBase>> \o NatMulSmallC(Tail(a), m, t \div LimbBase)

\* a * m, for 0 <= m < 200000.
NatMulSmall(a, m) == IF m = 0 THEN <<>> ELSE NatMulSmallC(a, m, 0)

RECURSIVE NatMul(_, _)
NatMul(a, b) ==
    IF a = <<>> \/ b = <<>> THEN <<>>
    ELSE LET rest == NatMul(a, Tail(b))
         IN  NatAdd(NatMulSmall(a, Head(b)), IF rest = <<>> THEN rest ELSE <<0>> \o rest)

RECURSIVE NatTimesUnitPower(_, _)
NatTimesUnitPower(a, k) ==
    IF k = 0 THEN a ELSE NatTimesUnitPower(NatMulSmall(a, Unit), k - 1)

Num(neg, mag, exp) == [neg |-> neg /\ mag # <<>>, mag |-> mag, exp |-> exp]

Whole(n) == Num(n < 0, NatOf(IF n < 0 THEN -n ELSE n), 0)

Rescale(x, e) == Num(x.neg, NatTimesUnitPower(x.mag, e - x.exp), e)

Neg(x) == Num(~x.neg, x.mag, x.exp)

Add(x, y) ==
    LET e == IF x.exp > y.exp THEN x.exp ELSE y.exp
        a == Rescale(x, e).mag
        b == Rescale(y, e).mag
    IN  IF x.neg = y.neg THEN Num(x.neg, NatAdd(a, b), e)
        ELSE IF NatLess(a, b) THEN Num(y.neg, NatSub(b, a), e)
        ELSE Num(x.neg, NatSub(a, b), e)

Sub(x, y) == Add(x, Neg(y))

Mul(x, y) == Num(x.neg # y.neg, NatMul(x.mag, y.mag), x.exp + y.exp)

\* x / d for an integer d >= 1 that divides Unit.
DivInt(x, d) == Num(x.neg, NatMulSmall(x.mag, Unit \div d), x.exp + 1)

Abs(x) == Num(FALSE, x.mag, x.exp)

Less(x, y) == Sub(x, y).neg

Equal(x, y) == Sub(x, y).mag = <<>>

\* The decimal literal n/100.
Hundredths(n) == DivInt(Whole(n), 100)

(***************************************************************************)
(*                               HEREDITY                                  *)
(***************************************************************************)
PROBS ==
    [gene     |-> [g \in 0..2 |-> Hundredths(CASE g = 2 -> 1 [] g = 1 -> 3 [] g = 0 -> 96)],
     trait    |-> [g \in 0..2 |->
                     [t \in BOOLEAN |->
                        Hundredths(CASE g = 2 -> (IF t THEN 65 ELSE 35)
                                     [] g = 1 -> (IF t THEN 56 ELSE 44)
                                     [] g = 0 -> (IF t THEN 1 ELSE 99))]],
     mutation |-> Hundredths(1)]

\* csv.DictReader's rows and load_data's loop over them; a later row with the
\* same name replaces the earlier one.
RECURSIVE load_rows(_, _)
load_rows(rows, data) ==
    IF rows = <<>> THEN data
    ELSE LET row == Head(rows)
             entry == [name   |-> row.name,
                       mother |-> IF row.mother = "" THEN None ELSE row.mother,
                       father |-> IF row.father = "" THEN None ELSE row.father,
                       trait  |-> IF row.trait = "1" THEN "True"
                                  ELSE IF row.trait = "0" THEN "False"
                                  ELSE None]
         IN  load_rows(Tail(rows), (row.name :> entry) @@ data)

load_data(rows) == load_rows(rows, <<>>)

\* list(s) for a set s of names: some order of its members.
RECURSIVE ListOf(_)
ListOf(s) ==
    IF s = {} THEN <<>>
    ELSE LET x == CHOOSE x \in s : TRUE IN <<x>> \o ListOf(s \ {x})

\* itertools.combinations(list, r), as a sequence of sets.
RECURSIVE combinations(_, _)
combinations(list, r) ==
    IF r = 0 THEN <<{}>>
    ELSE IF Len(list) < r THEN <<>>
    ELSE LET with == combinations(Tail(list), r - 1)
         IN  [i \in 1..Len(with) |-> {Head(list)} \cup with[i]]
               \o combinations(Tail(list), r)

RECURSIVE powerset_from(_, _)
powerset_from(list, r) ==
    IF r > Len(list) THEN <<>>
    ELSE combinations(list, r) \o powerset_from(list, r + 1)

powerset(s) == powerset_from(ListOf(s), 0)

person_num_of_genes(person, one_gene, two_genes) ==
    IF person \in one_gene THEN 1
    ELSE IF person \in two_genes THEN 2
    ELSE 0

parent_inherit_process_no_else(num_of_genes, is_inherited) ==
    CASE num_of_genes = 0 -> PROBS.mutation
      [] num_of_genes = 1 -> DivInt(Whole(5), 10)
      [] num_of_genes = 2 ->
           IF is_inherited THEN Sub(Whole(1), PROBS.mutation) ELSE PROBS.mutation

parent_inherit_process(num_of_genes, is_inherited) ==
    CASE num_of_genes = 0 ->
           IF is_inherited THEN PROBS.mutation ELSE Sub(Whole(1), PROBS.mutation)
      [] num_of_genes = 1 -> DivInt(Whole(5), 10)
      [] num_of_genes = 2 ->
           IF is_inherited THEN Sub(Whole(1), PROBS.mutation) ELSE PROBS.mutation

\* The body of joint_probability's loop: `probability` after the factors of
\* one person are multiplied in.
joint_probability_person(ppl, person, one_gene, two_genes, have_trait, probability) ==
    LET num_of_genes_person == person_num_of_genes(person, one_gene, two_genes)
        has_trait == person \in have_trait
        mother == ppl[person].mother
        father == ppl[person].father
    IN  IF mother = None /\ father = None
        THEN Mul(probability, Mul(PROBS.gene[num_of_genes_person],
                                  PROBS.trait[num_of_genes_person][has_trait]))
        ELSE LET num_of_genes_mother == person_num_of_genes(mother, one_gene, two_genes)
                 num_of_genes_father == person_num_of_genes(father, one_gene, two_genes)
                 inherited ==
                     CASE num_of_genes_person = 0 ->
                            Mul(parent_inherit_process(num_of_genes_mother, FALSE),
                                parent_inherit_process(num_of_genes_father, FALSE))
                       [] num_of_genes_person = 1 ->
                            Add(Mul(parent_inherit_process(num_of_genes_mother, FALSE),
                                    parent_inherit_process(num_of_genes_father, TRUE)),
                                Mul(parent_inherit_process(num_of_genes_mother, TRUE),
                                    parent_inherit_process(num_of_genes_father, FALSE)))
                       [] num_of_genes_person = 2 ->
                            Mul(parent_inherit_process(num_of_genes_mother, TRUE),
                                parent_inherit_process(num_of_genes_father, TRUE))
             IN  Mul(Mul(probability, inherited),
                     PROBS.trait[num_of_genes_person][has_trait])

RECURSIVE joint_probability_loop(_, _, _, _, _, _)
joint_probability_loop(ppl, persons, one_gene, two_genes, have_trait, probability) ==
    IF persons = <<>> THEN probability
    ELSE joint_probability_loop(ppl, Tail(persons), one_gene, two_genes, have_trait,
             joint_probability_person(ppl, Head(persons), one_gene, two_genes,
                                      have_trait, probability))

joint_probability(ppl, one_gene, two_genes, have_trait) ==
    joint_probability_loop(ppl, ListOf(DOMAIN ppl), one_gene, two_genes, have_trait, Whole(1))

update(probs, one_gene, two_genes, have_trait, p) ==
    [person \in DOMAIN probs |->
        LET num_of_genes == person_num_of_genes(person, one_gene, two_genes)
            has_trait == person \in have_trait
        IN  [gene  |-> [probs[person].gene EXCEPT
                           ![num_of_genes] = Add(probs[person].gene[num_of_genes], p)],
             trait |-> [probs[person].trait EXCEPT
                           ![has_trait] = Add(probs[person].trait[has_trait], p)]]]

\* main's check of a have_trait set against the known traits.
fails_evidence(ppl, have_trait) ==
    \E person \in DOMAIN ppl :
        /\ ppl[person].trait # None
        /\ ppl[person].trait # (IF person \in have_trait THEN "True" ELSE "False")

\* The (have_trait, one_gene, two_genes) triples for which main's three
\* nested loops reach the innermost body, in the order they are reached.
two_genes_loop(have_trait, one_gene, two_genes_sets) ==
    [i \in 1..Len(two_genes_sets) |-> <<have_trait, one_gene, two_genes_sets[i]>>]

RECURSIVE one_gene_loop(_, _, _)
one_gene_loop(names, have_trait, one_gene_sets) ==
    IF one_gene_sets = <<>> THEN <<>>
    ELSE two_genes_loop(have_trait, Head(one_gene_sets), powerset(names \ Head(one_gene_sets)))
           \o one_gene_loop(names, have_trait, Tail(one_gene_sets))

RECURSIVE have_trait_loop(_, _, _)
have_trait_loop(ppl, names, have_trait_sets) ==
    IF have_trait_sets = <<>> THEN <<>>
    ELSE (IF fails_evidence(ppl, Head(have_trait_sets)) THEN <<>>
          ELSE one_gene_loop(names, Head(have_trait_sets), powerset(names)))
           \o have_trait_loop(ppl, names, Tail(have_trait_sets))

main_loop(ppl) == have_trait_loop(ppl, DOMAIN ppl, powerset(DOMAIN ppl))

\* The CSV files the runs are given: the family of Harry and his parents
\* James and Lily, with Harry's mother and father fields blank, right, or
\* (the mother) naming somebody who has no row, and some traits known.
CsvFiles ==
    {<<[name |-> "Harry", mother |-> m, father |-> f, trait |-> t],
       [name |-> "James", mother |-> "", father |-> "", trait |-> tj],
       [name |-> "Lily", mother |-> "", father |-> "", trait |-> tl]>> :
        m \in {"", "Lily", "Molly"}, f \in {"", "James"}, t \in {"", "1"},
        tj \in {"", "1"}, tl \in {"", "0"}}

HeredityIdle ==
    /\ csv_rows = <<>>
    /\ people = <<>>
    /\ h_pc = "idle"
    /\ position = 0
    /\ probabilities = <<>>
    /\ joint_sum = Whole(0)

HeredityInit ==
    /\ csv_rows \in CsvFiles
    /\ people = <<>>
    /\ h_pc = "load"
    /\ position = 0
    /\ probabilities = <<>>
    /\ joint_sum = Whole(0)

\* people = load_data(sys.argv[1]) and the initial probabilities.
LoadData ==
    /\ h_pc = "load"
    /\ people' = load_data(csv_rows)
    /\ probabilities' = [person \in DOMAIN people' |->
                            [gene  |-> [g \in 0..2 |-> Whole(0)],
                             trait |-> [t \in BOOLEAN |-> Whole(0)]]]
    /\ position' = 1
    /\ h_pc' = "enumerate"
    /\ UNCHANGED <<csv_rows, joint_sum>>

\* One run of the innermost loop body of main: joint_probability, then update.
EnumerateStep ==
    /\ h_pc = "enumerate"
    /\ \E loop \in {main_loop(people)} :
         /\ position <= Len(loop)
         /\ \E p \in {joint_probability(people, loop[position][2], loop[position][3],
                                        loop[position][1])} :
              /\ probabilities' = update(probabilities, loop[position][2],
                                         loop[position][3], loop[position][1], p)
              /\ joint_sum' = Add(joint_sum, p)
         /\ position' = position + 1
         /\ h_pc' = IF position = Len(loop) THEN "done" ELSE "enumerate"
    /\ UNCHANGED <<csv_rows, people>>

NextHeredity ==
    \/ LoadData /\ UNCHANGED <<gameVars, rankVars>>
    \/ EnumerateStep /\ UNCHANGED <<gameVars, rankVars>>

(***************************************************************************)
(*                               PAGERANK                                  *)
(***************************************************************************)
DAMPING == Hundredths(85)

\* The damping factors the runs are given.
DampingFactors == {Whole(0), DivInt(Whole(1), 4), DAMPING, Whole(1)}

\* The corpora crawl() can return with at most MaxPages pages (page k stands
\* for the file "k.html"): every link leads to another page of the corpus.
\* The corpus of a directory without .html files is empty.
Corpora ==
    UNION {{c \in [1..k -> SUBSET (1..k)] : \A page \in 1..k : page \notin c[page]} :
             k \in 0..MaxPages}

RECURSIVE SumOver(_, _)
SumOver(f, S) ==
    IF S = {} THEN Whole(0)
    ELSE LET x == CHOOSE x \in S : TRUE IN Add(f[x], SumOver(f, S \ {x}))

transition_model(corp, page, d) ==
    LET num_of_links_from_page == Cardinality(corp[page])
        num_of_pages == Cardinality(DOMAIN corp)
    IN  IF num_of_links_from_page = 0
        THEN [key \in DOMAIN corp |-> DivInt(Whole(1), num_of_pages)]
        ELSE LET unlinked_page_probability ==
                     Mul(Sub(Whole(1), d), DivInt(Whole(1), num_of_pages))
                 linked_page_probability ==
                     Add(Mul(d, DivInt(Whole(1), num_of_links_from_page)),
                         unlinked_page_probability)
             IN  [temp_page \in DOMAIN corp |->
                     IF temp_page \in corp[page] THEN linked_page_probability
                     ELSE unlinked_page_probability]

\* result_dict.get(page, 0)
DictGet(dict, page) == IF page \in DOMAIN dict THEN dict[page] ELSE Whole(0)

\* dict[page] = value
DictSet(dict, page, value) == (page :> value) @@ dict

\* sample_pagerank up to the loop: random.choice raises IndexError on an
\* empty list of pages; otherwise any page can be the first.
SampleStart ==
    /\ call = "sample"
    /\ r_pc = "start"
    /\ IF DOMAIN corpus = {}
       THEN /\ r_pc' = "IndexError"
            /\ UNCHANGED <<cur_page, result_dict, visits>>
       ELSE \E init_page \in DOMAIN corpus :
              /\ result_dict' = DictSet(result_dict, init_page, DivInt(Whole(1), sample_n))
              /\ visits' = [visits EXCEPT ![init_page] = 1]
              /\ cur_page' = init_page
              /\ r_pc' = "loop"
    /\ UNCHANGED <<corpus, damping_factor, sample_n, call, sample_i, pre_result_dict,
                   cur_result_dict, iterations, ranks>>

\* One pass of sample_pagerank's loop: random.choices can draw every page
\* whose weight in the transition model is positive.
SampleStep ==
    /\ call = "sample"
    /\ r_pc = "loop"
    /\ sample_i < sample_n - 1
    /\ \E trans \in {transition_model(corpus, cur_page, damping_factor)} :
         \E next_page \in DOMAIN trans :
           /\ Less(Whole(0), trans[next_page])
           /\ cur_page' = next_page
           /\ result_dict' = DictSet(result_dict, next_page,
                                     Add(DictGet(result_dict, next_page), DivInt(Whole(1), sample_n)))
           /\ visits' = [visits EXCEPT ![next_page] = @ + 1]
    /\ sample_i' = sample_i + 1
    /\ UNCHANGED <<corpus, damping_factor, sample_n, call, r_pc, pre_result_dict,
                   cur_result_dict, iterations, ranks>>

\* return result_dict
SampleReturn ==
    /\ call = "sample"
    /\ r_pc = "loop"
    /\ sample_i = sample_n - 1
    /\ ranks' = result_dict
    /\ r_pc' = "returned"
    /\ UNCHANGED <<corpus, damping_factor, sample_n, call, cur_page, sample_i, result_dict, visits,
                   pre_result_dict, cur_result_dict, iterations>>

\* iterate_pagerank up to the while loop.
IterateStart ==
    /\ call = "iterate"
    /\ r_pc = "start"
    /\ pre_result_dict' = [page \in DOMAIN corpus |->
                              DivInt(Whole(1), Cardinality(DOMAIN corpus))]
    /\ cur_result_dict' = pre_result_dict'
    /\ r_pc' = "loop"
    /\ UNCHANGED <<corpus, damping_factor, sample_n, call, cur_page, sample_i, result_dict, visits,
                   iterations, ranks>>

\* The sum the inner loop over src_page leaves in updated_value.
RECURSIVE incoming_no_dangling(_, _, _, _)
incoming_no_dangling(corp, pre, dest_page, srcs) ==
    IF srcs = {} THEN Whole(0)
    ELSE LET src_page == CHOOSE x \in srcs : TRUE
             rest == incoming_no_dangling(corp, pre, dest_page, srcs \ {src_page})
         IN  IF dest_page \in corp[src_page]
             THEN Add(rest, DivInt(pre[src_page], Cardinality(corp[src_page])))
             ELSE rest

RECURSIVE incoming(_, _, _, _)
incoming(corp, pre, dest_page, srcs) ==
    IF srcs = {} THEN Whole(0)
    ELSE LET src_page == CHOOSE x \in srcs : TRUE
             rest == incoming(corp, pre, dest_page, srcs \ {src_page})
         IN  IF dest_page \in corp[src_page]
             THEN Add(rest, DivInt(pre[src_page], Cardinality(corp[src_page])))
             ELSE IF Cardinality(corp[src_page]) = 0
             THEN Add(rest, DivInt(pre[src_page], Cardinality(DOMAIN corp)))
             ELSE rest

\* The value one pass of the loop over dest_page stores in cur_result_dict.
updated_value(corp, d, pre, dest_page) ==
    Add(Mul(incoming(corp, pre, dest_page, DOMAIN corp), d),
        DivInt(Sub(Whole(1), d), Cardinality(DOMAIN corp)))

margin == DivInt(DivInt(Whole(1), 100), 10)

\* One pass of iterate_pagerank's while loop, with the return that ends it
\* when every page has converged.
IterateSweep ==
    /\ call = "iterate"
    /\ r_pc = "loop"
    /\ iterations < MaxIterations
    /\ \E cur \in {[dest_page \in DOMAIN corpus |->
                      updated_value(corpus, damping_factor, pre_result_dict, dest_page)]} :
         LET num_converged ==
                 Cardinality({dest_page \in DOMAIN corpus :
                     Less(Abs(Sub(cur[dest_page], pre_result_dict[dest_page])), margin)})
         IN  /\ cur_result_dict' = cur
             /\ IF num_converged = Cardinality(DOMAIN corpus)
                THEN /\ ranks' = pre_result_dict
                     /\ r_pc' = "returned"
                     /\ UNCHANGED pre_result_dict
                ELSE /\ pre_result_dict' = cur
                     /\ UNCHANGED <<ranks, r_pc>>
    /\ iterations' = iterations + 1
    /\ UNCHANGED <<corpus, damping_factor, sample_n, call, cur_page, sample_i, result_dict, visits>>

RankIdle ==
    /\ corpus = <<>>
    /\ damping_factor = DAMPING
    /\ sample_n = 1
    /\ call = "idle"
    /\ r_pc = "idle"
    /\ cur_page = 0
    /\ sample_i = 0
    /\ result_dict = <<>>
    /\ visits = <<>>
    /\ pre_result_dict = <<>>
    /\ cur_result_dict = <<>>
    /\ iterations = 0
    /\ ranks = <<>>

RankInit(calls) ==
    /\ corpus \in Corpora
    /\ damping_factor \in DampingFactors
    /\ call \in calls
    /\ sample_n \in IF call = "sample" THEN 1..MaxSamples ELSE {1}
    /\ r_pc = "start"
    /\ cur_page = 0
    /\ sample_i = 0
    /\ result_dict = <<>>
    /\ visits = [page \in DOMAIN corpus |-> 0]
    /\ pre_result_dict = <<>>
    /\ cur_result_dict = <<>>
    /\ iterations = 0
    /\ ranks = <<>>

NextIterate ==
    \/ IterateStart /\ UNCHANGED <<gameVars, heredityVars>>
    \/ IterateSweep /\ UNCHANGED <<gameVars, heredityVars>>

NextRank ==
    \/ SampleStart /\ UNCHANGED <<gameVars, heredityVars>>
    \/ SampleStep /\ UNCHANGED <<gameVars, heredityVars>>
    \/ SampleReturn /\ UNCHANGED <<gameVars, heredityVars>>
    \/ IterateStart /\ UNCHANGED <<gameVars, heredityVars>>
    \/ IterateSweep /\ UNCHANGED <<gameVars, heredityVars>>

----------------------------------------------------------------------------
\* A call board = result(board, a), for any cell a: it raises on an occupied
\* cell and otherwise hands back the new board.
ResultCall(a) ==
    /\ action' = a
    /\ IF board[a[1]][a[2]] # EMPTY
       THEN /\ raised' = TRUE
            /\ input' = board
            /\ board' = board
       ELSE /\ raised' = FALSE
            /\ input' = result_call(board, a).arg
            /\ board' = result_call(board, a).ret
    /\ UNCHANGED <<order, values, optimal_move>>
    /\ UNCHANGED <<heredityVars, rankVars>>

\* A call minimax(board), made once on a board of the game, whose loop meets
\* the actions in the k-rotated order.  The values of the successors do not
\* depend on the order and are computed once for all orders.
MinimaxCall ==
    /\ ~terminal(board)
    /\ optimal_move = NoAction
    /\ \E vals \in {successor_values(board)} :
         /\ values' = vals
         /\ \E k \in 0..(NumRotations - 1) :
              /\ order' = Enumerate(actions(board), k)
              /\ optimal_move' = minimax_select(board, order', vals)
    /\ UNCHANGED <<board, input, action, raised>>
    /\ UNCHANGED <<heredityVars, rankVars>>

\* A move of a game that is played to its end: any empty cell of a board
\* that is not terminal.  (What a single result() call does to its argument
\* is observed under Spec, by ResultCall.)
PlayMove(a) ==
    /\ ~terminal(board)
    /\ a \in actions(board)
    /\ board' = result(board, a)
    /\ order' = <<>>
    /\ values' = {}
    /\ optimal_move' = NoAction
    /\ UNCHANGED <<input, action, raised>>
    /\ UNCHANGED <<heredityVars, rankVars>>

\* One round of self-play: board = result(board, minimax(board)), for every
\* order in which minimax may enumerate the actions.
SelfPlayMove ==
    /\ ~terminal(board)
    /\ \E vals \in {successor_values(board)} :
         \E k \in 0..(NumRotations - 1) :
           /\ optimal_move' = minimax_select(board, Enumerate(actions(board), k), vals)
           /\ action' = optimal_move'
           /\ raised' = FALSE
           /\ input' = result_call(board, optimal_move').arg
           /\ board' = result_call(board, optimal_move').ret
    /\ order' = <<>>
    /\ values' = {}
    /\ UNCHANGED <<heredityVars, rankVars>>

\* The game before any call; also the idle state of the game's variables in
\* the runs of the other kernels.
GameInit ==
    /\ board = initial_state
    /\ input = initial_state
    /\ action = NoAction
    /\ raised = FALSE
    /\ order = <<>>
    /\ values = {}
    /\ optimal_move = NoAction

Init == GameInit /\ HeredityIdle /\ RankIdle

Next == \E a \in Cells : ResultCall(a)

\* Any sequence of result() calls.
Spec == Init /\ [][Next]_vars

NextPlay ==
    \/ \E a \in Cells : PlayMove(a)
    \/ MinimaxCall

\* Legal play, with minimax() consulted on the boards it reaches.
SpecPlay == Init /\ [][NextPlay]_vars

NextSelfPlay == SelfPlayMove

\* Both sides play minimax()'s move until the board is terminal.
SpecSelfPlay == Init /\ [][NextSelfPlay]_vars

\* A run of heredity's main on one of the CSV files.
InitHeredity == GameInit /\ HeredityInit /\ RankIdle

SpecHeredity == InitHeredity /\ [][NextHeredity]_vars

InitIterate == GameInit /\ HeredityIdle /\ RankInit({"iterate"})

\* A call of iterate_pagerank on a corpus.
SpecIterate == InitIterate /\ [][NextIterate]_vars

InitRank == GameInit /\ HeredityIdle /\ RankInit({"sample", "iterate"})

\* A call of either estimator on a corpus.
SpecRank == InitRank /\ [][NextRank]_vars

(***************************************************************************)
(*                      CLAIMS ABOUT THE GAME KERNEL                       *)
(***************************************************************************)
\* C1: self-play with minimax() on both sides, whatever the order in which
\* the actions are enumerated, goes on until the board is terminal (on every
\* board that is not, minimax() returns an empty cell, and each round fills
\* one more of the nine cells), and the terminal board it ends on has no
\* winner and utility 0.
C1_SelfPlayEndsInDraw ==
    /\ terminal(board) => winner(board) = None /\ utility(board) = 0
    /\ ~terminal(board) =>
         \A vals \in {successor_values(board)} :
           \A k \in 0..(NumRotations - 1) :
             minimax_select(board, Enumerate(actions(board), k), vals) \in actions(board)

C1_Witness ==
    /\ terminal(board)
    /\ winner(board) = None
    /\ actions(board) = {}
    /\ optimal_move # NoAction

\* C2: a result() call on an empty cell returns a board that holds
\* player(board) at the addressed cell and equals the argument at the other
\* eight cells, and the argument itself is as it was before the call.
C2_ResultFrame ==
    [][ ~raised' =>
          /\ board[action'[1]][action'[2]] = EMPTY
          /\ input' = board
          /\ board'[action'[1]][action'[2]] = player(board)
          /\ \A rc \in Cells \ {action'} : board'[rc[1]][rc[2]] = board[rc[1]][rc[2]]
      ]_vars

C2_Witness ==
    /\ action # NoAction
    /\ ~raised
    /\ board # input
    /\ CountMark(board, O) >= 2

\* C3: on every board reached by result() calls, the X cells outnumber the O
\* cells by 0 or 1, and player(board) is X exactly when the difference is 0.
C3_TurnAlternation ==
    LET diff == CountMark(board, X) - CountMark(board, O)
    IN  /\ diff \in {0, 1}
        /\ (player(board) = X) <=> (diff = 0)

C3_Witness ==
    /\ action # NoAction
    /\ CountMark(board, X) - CountMark(board, O) = 1
    /\ player(board) = O
    /\ CountMark(board, O) >= 3

OneOwner(b) ==
    /\ ~(OwnsLine(b, X) /\ OwnsLine(b, O))
    /\ winner_in_order(b, <<O, X>>) = winner_in_order(b, <<X, O>>)

\* C4, as stated: on every board reached by result() calls on empty cells at
\* most one mark owns a complete line, and winner() answers the same
\* whichever mark it checks first.
C4_OneOwnerAfterAnyCalls == OneOwner(board)

\* C4, amended: the same, on every board that result() returned for a board
\* that was not terminal (a game that stops once terminal(board) holds).
C4_OneOwnerInPlay == ~terminal(input) => OneOwner(board)

C4_Witness ==
    /\ action # NoAction
    /\ ~raised
    /\ ~terminal(input)
    /\ OwnsLine(board, O)
    /\ winner(board) = O

\* C10: on a board that is not terminal, minimax() returns the first action,
\* in the order of enumeration, whose successor has the greatest min_value
\* (X to move) or the least max_value (O to move); an equal value met later
\* never replaces it.
C10_FirstExtremalAction ==
    optimal_move # NoAction =>
        LET extremal == IF player(board) = X
                        THEN SetMax({p[2] : p \in values})
                        ELSE SetMin({p[2] : p \in values})
        IN  /\ {p[1] : p \in values} = actions(board)
            /\ {order[i] : i \in 1..Len(order)} = actions(board)
            /\ \A p \in values :
                 terminal(result(board, p[1])) => p[2] = utility(result(board, p[1]))
            /\ \E i \in 1..Len(order) :
                 /\ order[i] = optimal_move
                 /\ ValueIn(values, order[i]) = extremal
                 /\ \A j \in 1..(i - 1) : ValueIn(values, order[j]) # extremal

\* A later action ties with the one returned, and the first action enumerated
\* is not extremal.
C10_Witness ==
    /\ optimal_move # NoAction
    /\ player(board) = O
    /\ \E i, j \in 1..Len(order) :
         /\ 1 < i /\ i < j
         /\ order[i] = optimal_move
         /\ ValueIn(values, order[j]) = ValueIn(values, optimal_move)
         /\ ValueIn(values, order[1]) # ValueIn(values, optimal_move)

(***************************************************************************)
(*                    CLAIMS ABOUT THE INFERENCE KERNEL                    *)
(***************************************************************************)
ParentsPaired(ppl, person) ==
    \/ ppl[person].mother = None /\ ppl[person].father = None
    \/ ppl[person].mother \in DOMAIN ppl /\ ppl[person].father \in DOMAIN ppl

\* C5: load_data never returns a population in which some person has exactly
\* one of mother/father set, or names a mother or father that has no entry.
C5_LoadRejectsUnpairedParents ==
    h_pc \in {"enumerate", "done"} => \A person \in DOMAIN people : ParentsPaired(people, person)

\* Two founders and their one child, all with unknown trait.
TrioUnknownTraits(ppl) ==
    /\ Cardinality(DOMAIN ppl) = 3
    /\ \A person \in DOMAIN ppl : ppl[person].trait = None
    /\ \E child, mother, father \in DOMAIN ppl :
         /\ Cardinality({child, mother, father}) = 3
         /\ ppl[child].mother = mother /\ ppl[child].father = father
         /\ ppl[mother].mother = None /\ ppl[mother].father = None
         /\ ppl[father].mother = None /\ ppl[father].father = None

IsDistribution(m) ==
    /\ DOMAIN m = DOMAIN corpus
    /\ \A page \in DOMAIN m : ~Less(m[page], Whole(0))
    /\ Equal(SumOver(m, DOMAIN m), Whole(1))

\* C7: on a corpus that is not empty, the rank mappings iterate_pagerank
\* holds after every pass of its loop, and the mapping it returns, have an
\* entry for every page, each entry >= 0, and entries that sum to 1.
C7_IterateKeepsDistribution ==
    (call = "iterate" /\ DOMAIN corpus # {} /\ r_pc \in {"loop", "returned"}) =>
        /\ IsDistribution(pre_result_dict)
        /\ IsDistribution(cur_result_dict)
        /\ r_pc = "returned" => IsDistribution(ranks)

\* A corpus with a page without links and a page with links, returned from
\* after several passes.
C7_Witness ==
    /\ call = "iterate"
    /\ r_pc = "returned"
    /\ iterations >= 4
    /\ damping_factor = DAMPING
    /\ \E page \in DOMAIN corpus : corpus[page] = {}
    /\ \E page \in DOMAIN corpus : corpus[page] # {}
    /\ \E page \in DOMAIN ranks : ~Equal(ranks[page], DivInt(Whole(1), Cardinality(DOMAIN corpus)))

\* C8: on a corpus that is not empty and for n >= 1, sample_pagerank returns
\* a mapping with an entry for each page, each entry that page's visit count
\* divided by n, and the visit counts total n.
C8_SampleReturnsFrequencyOfEachPage ==
    (call = "sample" /\ r_pc = "returned") =>
        /\ DOMAIN ranks = DOMAIN corpus
        /\ \A page \in DOMAIN corpus :
             page \in DOMAIN ranks => Equal(ranks[page], DivInt(Whole(visits[page]), sample_n))
        /\ Equal(SumOver([page \in DOMAIN corpus |-> Whole(visits[page])], DOMAIN corpus),
                 Whole(sample_n))

\* C9: on a corpus with no pages neither estimator returns a mapping; each
\* ends in an error.
C9_EmptyCorpusFails ==
    DOMAIN corpus = {} => r_pc # "returned"

=============================================================================
